---- MODULE Spec2Model ----
(***************************************************************************)
(* pyaedt: the EDB Components cache (edb_core/components.py) and the       *)
(* Desktop launch / release bookkeeping (desktop.py).                      *)
(*                                                                         *)
(* Two state machines share the observation variables op, ret and calls:   *)
(*   SpecComponents  one Components object over one external layout        *)
(*   Spec            __main__ and the AEDT processes driven by desktop.py  *)
(* op is the last operation run with its arguments, ret what it returned   *)
(* (or the exception it raised), calls the external calls it made, in      *)
(* order.                                                                  *)
(***************************************************************************)
EXTENDS Integers, Sequences, FiniteSets, TLC

VARIABLES
    layout,     \* external EDB layout: RefDes -> [type, numpins]
    cmp,        \* Components._cmp: RefDes -> EDBComponent
    com,        \* desktop._com, the COM backend chosen at import
    installed,  \* ids of the ANSYSEM_ROOT<id> environment variables
    procs,      \* running ansysedt.exe processes of the user: pid -> [ver]
    main,       \* attributes of sys.modules['__main__']
    desktop,    \* the Desktop object the script holds (the last one constructed), or None
    op, ret, calls

compVars == <<layout, cmp>>
deskVars == <<com, installed, procs, main, desktop>>
fixedVars == <<layout, cmp, com, installed>>
obsVars == <<op, ret, calls>>
vars == <<layout, cmp, com, installed, procs, main, desktop, op, ret, calls>>

(***************************************************************************)
(* Bounds                                                                  *)
(***************************************************************************)
MaxPins == 2
MaxProcs == 2          \* AEDT processes alive at once
MaxProjects == 2       \* projects open in the desktop when it is released
MaxScopeID == 1        \* largest desktop.ScopeID

RefDesNames == {"R1", "C1", "U1"}
CompTypes == {"Resistor", "Capacitor", "Inductor", "IC"}

None == [t |-> "None"]

Range(s) == {s[i] : i \in 1..Len(s)}

\* all orders in which the elements of S can be listed
RECURSIVE Orders(_)
Orders(S) ==
    IF S = {} THEN {<<>>}
    ELSE UNION {{<<x>> \o s : s \in Orders(S \ {x})} : x \in S}

Restrict(f, S) == [x \in S |-> f[x]]

\* the attributes of __main__ that desktop.py reads back, before it has set anything
\* (oDesktop = 0: no such attribute).  AEDTVersion, which it only writes, is reported
\* with the constructed Desktop.
NoMain == [oDesktop |-> 0, close_on_exit |-> FALSE, pyaedt_initialized |-> FALSE]

(***************************************************************************)
(* edb_core/components.py                                                  *)
(***************************************************************************)
Layouts ==
    UNION {[S -> [type : CompTypes, numpins : 0..MaxPins]] : S \in SUBSET RefDesNames}

\* EDBComponent(self, cmp, cmp.RefDes): the component as read from the layout
EDBComponent(lay, refdes) ==
    [refdes |-> refdes, type |-> lay[refdes].type, numpins |-> lay[refdes].numpins]

\* get_component_list: one entry per component of the layout
get_component_list(lay) == DOMAIN lay

\* refresh_components: _cmp rebuilt from get_component_list
refresh_components(lay) ==
    [refdes \in get_component_list(lay) |-> EDBComponent(lay, refdes)]

components_AlwaysRefresh(c, lay) ==
    [cmp |-> refresh_components(lay), calls |-> <<"get_component_list">>]

\* the components property: `if not self._cmp: self.refresh_components()`
components(c, lay) ==
    IF DOMAIN c = {}
    THEN [cmp |-> refresh_components(lay), calls |-> <<"get_component_list">>]
    ELSE [cmp |-> c, calls |-> <<>>]

\* get_component_by_name: the Edb Component object found in the layout, or None
get_component_by_name(lay, name) ==
    IF name \in DOMAIN lay THEN [t |-> "Component", name |-> name] ELSE None

\* Python `x in list(d.keys())` for str keys: an object that is no str equals no key
InKeys(x, keys) == x.t = "str" /\ x.s \in keys

\* Python `del d[k]`
DelKey(c, k) == Restrict(c, DOMAIN c \ {k})

\* Component.Delete() on the layout
LayoutDelete(lay, name) == Restrict(lay, DOMAIN lay \ {name})

IsSinglePinRlc_UpToTwoPins(val) ==
    val.numpins <= 2 /\ (val.type = "Resistor" \/ val.type = "Capacitor" \/ val.type = "Inductor")

\* the test of delete_single_pin_rlc on a cached component
IsSinglePinRlc(val) ==
    val.numpins < 2 /\ (val.type = "Resistor" \/ val.type = "Capacitor" \/ val.type = "Inductor")

\* first loop of delete_single_pin_rlc over items (the cache's keys in iteration order)
RECURSIVE RlcLoop(_, _, _, _)
RlcLoop(items, c, lay, deleted) ==
    IF items = <<>> THEN [layout |-> lay, deleted |-> deleted]
    ELSE LET comp == Head(items)
             edb_cmp == get_component_by_name(lay, comp)
         IN IF IsSinglePinRlc(c[comp]) /\ edb_cmp # None
            THEN RlcLoop(Tail(items), c, LayoutDelete(lay, comp), Append(deleted, comp))
            ELSE RlcLoop(Tail(items), c, lay, deleted)

\* second loop: `for el in deleted_comps: del self.components[el]`
RECURSIVE RlcDelLoop(_, _, _, _)
RlcDelLoop(els, c, lay, cs) ==
    IF els = <<>> THEN [cmp |-> c, calls |-> cs]
    ELSE LET r == components(c, lay)
         IN RlcDelLoop(Tail(els), DelKey(r.cmp, Head(els)), lay, cs \o r.calls)

CompInit ==
    /\ layout \in Layouts
    \* Components.__init__: _cmp = {} and init_parts reads the seven properties, each
    \* through self.components
    /\ cmp = refresh_components(layout)
    /\ op = [name |-> "__init__"]
    /\ ret = None
    /\ calls = IF DOMAIN layout = {} THEN [i \in 1..7 |-> "get_component_list"]
               ELSE <<"get_component_list">>
    /\ com = "pythonnet"
    /\ installed = {}
    /\ procs = <<>>
    /\ main = NoMain
    /\ desktop = None

AccessComponents ==
    LET r == components(cmp, layout)
    IN /\ cmp' = r.cmp
       /\ ret' = r.cmp
       /\ calls' = r.calls
       /\ op' = [name |-> "components"]
       /\ UNCHANGED <<layout, deskVars>>

RefreshComponents ==
    /\ cmp' = refresh_components(layout)
    /\ ret' = None
    /\ calls' = <<"get_component_list">>
    /\ op' = [name |-> "refresh_components"]
    /\ UNCHANGED <<layout, deskVars>>

DeleteComponent(component_name) ==
    LET edb_cmp == get_component_by_name(layout, component_name)
    IN /\ op' = [name |-> "delete_component", arg |-> component_name]
       /\ UNCHANGED deskVars
       /\ IF edb_cmp # None
          THEN LET lay1 == LayoutDelete(layout, component_name)
                   r1 == components(cmp, lay1)
                   r2 == components(r1.cmp, lay1)
               IN /\ layout' = lay1
                  /\ IF InKeys(edb_cmp, DOMAIN r1.cmp)
                     THEN /\ cmp' = DelKey(r2.cmp, edb_cmp.s)
                          /\ calls' = <<"Delete">> \o r1.calls \o r2.calls
                     ELSE /\ cmp' = r1.cmp
                          /\ calls' = <<"Delete">> \o r1.calls
                  /\ ret' = TRUE
          ELSE /\ ret' = FALSE
               /\ calls' = <<>>
               /\ UNCHANGED <<layout, cmp>>

DeleteSinglePinRlc ==
    LET r == components(cmp, layout)
    IN \E items \in Orders(DOMAIN r.cmp) :
        LET l1 == RlcLoop(items, r.cmp, layout, <<>>)
            l2 == RlcDelLoop(l1.deleted, r.cmp, l1.layout, <<>>)
        IN /\ layout' = l1.layout
           /\ cmp' = l2.cmp
           /\ ret' = l1.deleted
           /\ calls' = r.calls \o [i \in 1..Len(l1.deleted) |-> "Delete"] \o l2.calls
           /\ op' = [name |-> "delete_single_pin_rlc"]
           /\ UNCHANGED deskVars

CompNext ==
    \/ AccessComponents
    \/ RefreshComponents
    \/ \E n \in RefDesNames : DeleteComponent(n)
    \/ DeleteSinglePinRlc

SpecComponents == CompInit /\ [][CompNext]_vars

(***************************************************************************)
(* desktop.py                                                              *)
(*                                                                         *)
(* A version string "20vv.r" is the pair <<20vv, r>>, "" is <<>>, and      *)
(* GetVersion() "20vv.r.p" is <<20vv, r, p>>; string order on the keys is  *)
(* the order of the pairs.  An argument that may be None is                *)
(* [none, s].  An external call is the event [f, a].                       *)
(***************************************************************************)
Backends == {"pythonnet", "pythonnet_v3", "pywin32"}

\* ids the environment may hold: AnsysEM19.2, AnsysEM19.5 and AnsysEM21.2
InstallIds == {192, 195, 212}

\* the installations tried: none, and each release added to the older ones
InstallSets == {{i \in InstallIds : i <= top} : top \in InstallIds \cup {0}}

Ev(f, a) == [f |-> f, a |-> a]
Bool(b) == [t |-> "bool", v |-> b]
Raise(e) == [t |-> "raise", exc |-> e]

NoneArg == [none |-> TRUE, s |-> <<>>]
Str(s) == [none |-> FALSE, s |-> s]

\* Python truth of `if specified_version:`
Truthy(x) == ~x.none /\ x.s # <<>>

\* the loop body of version_keys: the key of one ANSYSEM_ROOT id
v_key(current_version_id) ==
    LET version == current_version_id \div 10
        release == current_version_id % 10
        v == IF version < 20 /\ release < 3 THEN version - 1 ELSE version
        r == IF version < 20 /\ ~(release < 3) THEN release - 2 ELSE release
    IN <<2000 + v, r>>

\* list_installed_ansysem (pyaedt/misc.py): the installed ids, latest first
RECURSIVE list_installed_ansysem(_)
list_installed_ansysem(ids) ==
    IF ids = {} THEN <<>>
    ELSE LET m == CHOOSE x \in ids : \A y \in ids : y <= x
         IN <<m>> \o list_installed_ansysem(ids \ {m})

version_keys(ids) ==
    LET version_list == list_installed_ansysem(ids)
    IN [i \in 1..Len(version_list) |-> v_key(version_list[i])]

current_version_Last(ids) == version_keys(ids)[Len(version_keys(ids))]

current_version(ids) == version_keys(ids)[1]

\* Python `a >= b` on two version keys
KeyGE(a, b) == a[1] > b[1] \/ (a[1] = b[1] /\ a[2] >= b[2])

\* oDesktop.GetVersion() of a process and its [0:6] slice
GetVersion(ps, h) == ps[h].ver \o <<0>>
Slice6(v) == SubSeq(v, 1, 2)

select_version_NoAssert(specified_version, ids) ==
    IF Truthy(specified_version)
    THEN [ok |-> TRUE, key |-> specified_version.s]
    ELSE IF version_keys(ids) = <<>> THEN [ok |-> FALSE, exc |-> "IndexError"]
         ELSE [ok |-> TRUE, key |-> current_version(ids)]

\* Desktop.__init__, the choice of version_key
select_version(specified_version, ids) ==
    IF Truthy(specified_version)
    THEN IF specified_version.s \in Range(version_keys(ids))
         THEN [ok |-> TRUE, key |-> specified_version.s]
         ELSE [ok |-> FALSE, exc |-> "AssertionError"]
    ELSE IF version_keys(ids) = <<>> THEN [ok |-> FALSE, exc |-> "IndexError"]
         ELSE [ok |-> TRUE, key |-> current_version(ids)]

init_release_AsGiven(present, release_on_exit) == release_on_exit

\* Desktop.__init__, self.release
init_release(present, release_on_exit) ==
    IF present THEN FALSE ELSE release_on_exit

\* a process id the operating system can hand out
FreshPids(ps) ==
    LET free == (1..MaxProcs) \ DOMAIN ps
    IN IF free = {} THEN {} ELSE {CHOOSE p \in free : \A q \in free : p <= q}

\* StandalonePyScriptWrapper.CreateObjectNew: a new AEDT process of the version
CreateObjectNew(ps, key) ==
    {[procs |-> ps @@ (p :> [ver |-> key]), h |-> p] : p \in FreshPids(ps)}

\* CreateObject(version) and win32com.client.Dispatch(version): a running AEDT of the
\* version when there is one, a new process otherwise
AttachOrLaunch(ps, key) ==
    LET running == {p \in DOMAIN ps : ps[p].ver = key}
    IN IF running # {} THEN {[procs |-> ps, h |-> p] : p \in running}
       ELSE CreateObjectNew(ps, key)

\* the `tasklist` scan: the user's ansysedt.exe process ids
tasklist(ps) == DOMAIN ps

Outcome(ps, h, coe, cs) == [procs |-> ps, oDesktop |-> h, close_on_exit |-> coe, calls |-> cs]

launch_pythonnet_AlwaysAttach(key, NG, AlwaysNew, ps) ==
    {Outcome(a.procs, a.h, FALSE, <<Ev("CreateObject", 0)>>) : a \in AttachOrLaunch(ps, key)}

\* Desktop.__init__, _com == 'pythonnet'
launch_pythonnet(key, NG, AlwaysNew, ps) ==
    IF NG \/ AlwaysNew
    THEN {Outcome(a.procs, a.h, FALSE, <<Ev("CreateObjectNew", 0)>>) : a \in CreateObjectNew(ps, key)}
    ELSE {Outcome(a.procs, a.h, FALSE, <<Ev("CreateObject", 0)>>) : a \in AttachOrLaunch(ps, key)}

\* Desktop.__init__, _com == 'pythonnet_v3', after the object was created: a holds the
\* processes and c the call made; the running object table may or may not list the new
\* process yet
launch_v3_bind(key, ps, a, c) ==
    LET processID == tasklist(ps)
        processID2 == tasklist(a.procs)
        proc == processID2 \ processID
    IN IF proc = {}
       THEN {Outcome(d.procs, d.h, FALSE, <<c, Ev("Dispatch", 0)>>) : d \in AttachOrLaunch(a.procs, key)}
       ELSE IF KeyGE(key, <<2021, 1>>)
            THEN {Outcome(a.procs, IF found THEN CHOOSE p \in proc : TRUE ELSE 0, TRUE,
                          <<c, Ev("GetRunningObjectTable", 0)>>) : found \in BOOLEAN}
            ELSE {Outcome(d.procs, d.h, FALSE, <<c, Ev("Dispatch", 0)>>) : d \in AttachOrLaunch(a.procs, key)}

launch_pythonnet_v3(key, NG, AlwaysNew, ps) ==
    LET processID == tasklist(ps)
    IN IF NG \/ AlwaysNew \/ processID = {}
       THEN UNION {launch_v3_bind(key, ps, a, Ev("CreateObjectNew", 0)) : a \in CreateObjectNew(ps, key)}
       ELSE UNION {launch_v3_bind(key, ps, a, Ev("CreateObject", 0)) : a \in AttachOrLaunch(ps, key)}

\* Desktop.__init__, _com == 'pywin32'
launch_pywin32(key, ps) ==
    {Outcome(d.procs, d.h, FALSE, <<Ev("Dispatch", 0)>>) : d \in AttachOrLaunch(ps, key)}

launch(backend, key, NG, AlwaysNew, ps) ==
    IF backend = "pythonnet" THEN launch_pythonnet(key, NG, AlwaysNew, ps)
    ELSE IF backend = "pythonnet_v3" THEN launch_pythonnet_v3(key, NG, AlwaysNew, ps)
    ELSE launch_pywin32(key, ps)

\* specified_version: None, "", a release that is not installed ("2020.1") and the
\* installed ones
SpecifiedVersions ==
    {NoneArg, Str(<<>>), Str(<<2020, 1>>)} \cup {Str(v_key(i)) : i \in installed}

\* Desktop(specified_version, NG, AlwaysNew, release_on_exit)
DesktopInit(specified_version, NG, AlwaysNew, release_on_exit) ==
    LET m0 == [main EXCEPT !.close_on_exit = FALSE]
        present == main.oDesktop # 0
        release == init_release(present, release_on_exit)
        sel == select_version(specified_version, installed)
    IN /\ op' = [name |-> "Desktop", specified_version |-> specified_version, NG |-> NG,
                 AlwaysNew |-> AlwaysNew, release_on_exit |-> release_on_exit]
       /\ UNCHANGED fixedVars
       /\ IF present
          THEN /\ main' = [m0 EXCEPT !.pyaedt_initialized = TRUE]
               /\ desktop' = [t |-> "Desktop", release |-> release]
               /\ ret' = [t |-> "Desktop", release |-> release,
                          AEDTVersion |-> Slice6(GetVersion(procs, main.oDesktop))]
               /\ calls' = <<Ev("GetVersion", 0)>>
               /\ UNCHANGED procs
          ELSE IF ~sel.ok
          THEN /\ main' = m0
               /\ ret' = Raise(sel.exc)
               /\ calls' = <<>>
               /\ UNCHANGED <<procs, desktop>>
          ELSE \E o \in launch(com, sel.key, NG, AlwaysNew, procs) :
               /\ procs' = o.procs
               /\ calls' = o.calls
               /\ IF o.oDesktop = 0
                  THEN \* self._main.oDesktop.RestoreWindow() without an oDesktop
                       /\ main' = [m0 EXCEPT !.close_on_exit = o.close_on_exit]
                       /\ ret' = Raise("AttributeError")
                       /\ UNCHANGED desktop
                  ELSE /\ main' = [m0 EXCEPT !.oDesktop = o.oDesktop,
                                             !.close_on_exit = o.close_on_exit,
                                             !.pyaedt_initialized = TRUE]
                       /\ desktop' = [t |-> "Desktop", release |-> release]
                       /\ ret' = [t |-> "Desktop", release |-> release, AEDTVersion |-> sel.key]

\* proj_list = desktop.GetProjectList(); for prj in proj_list: desktop.CloseProject(prj)
\* (the GetProjectList event carries the number of projects it returned)
CloseProjects(proj_list) ==
    <<Ev("GetProjectList", Len(proj_list))>>
        \o [i \in 1..Len(proj_list) |-> Ev("CloseProject", proj_list[i])]

\* del Module.oDesktop, recorded where it happens among the calls
DelDesktop == Ev("del oDesktop", 0)

ReleaseScopes_AlwaysZero(scopeID) == [k \in 1..(scopeID + 1) |-> Ev("ReleaseCOMObjectScope", 0)]

\* while i <= scopeID: ReleaseCOMObjectScope(PInvokeProxyAPI, i); i += 1
ReleaseScopes(scopeID) == [k \in 1..(scopeID + 1) |-> Ev("ReleaseCOMObjectScope", k - 1)]

\* the same loop of the close_desktop branch, which passes 0 every time
ReleaseScopeZero(scopeID) == [k \in 1..(scopeID + 1) |-> Ev("ReleaseCOMObjectScope", 0)]

\* oDesktop.GetProcessID(): the process of the handle, or a value that is not positive
GetProcessID(h, pid_ok) == IF pid_ok THEN h ELSE 0

\* os.kill(pid, 9) ends the process when there is one it may end
KillSucceeds(ps, pid, kill_ok) == kill_ok /\ pid \in DOMAIN ps

Result(m, ps, r, cs) == [main |-> m, procs |-> ps, ret |-> r, calls |-> cs]

\* try: os.kill(pid, 9); del Module.oDesktop; return True
\* except: Module.oMessenger.add_error_message(...); return False
KillAndForget(m, ps, pid, kill_ok, cs) ==
    IF KillSucceeds(ps, pid, kill_ok)
    THEN Result([m EXCEPT !.oDesktop = 0], Restrict(ps, DOMAIN ps \ {pid}), Bool(TRUE),
                cs \o <<Ev("kill", pid), DelDesktop>>)
    ELSE Result(m, ps, Bool(FALSE), cs \o <<Ev("kill", pid)>>)

release_pythonnet(m, ps, close_projects, close_desktop, proj_list, ScopeID) ==
    IF m.oDesktop = 0 THEN Result(m, ps, Raise("AttributeError"), <<>>)
    ELSE Result([m EXCEPT !.oDesktop = 0], ps, None,
                <<Ev("ScopeID", ScopeID)>>
                    \o (IF close_projects THEN CloseProjects(proj_list) ELSE <<>>)
                    \o ReleaseScopes(ScopeID) \o <<DelDesktop>>)

release_pythonnet_v3(m, ps, close_projects, close_desktop, proj_list, pid_ok, kill_ok) ==
    IF m.oDesktop = 0 THEN Result(m, ps, Raise("AttributeError"), <<>>)
    ELSE LET closed == IF close_projects THEN CloseProjects(proj_list) ELSE <<>>
         IN IF close_desktop
            THEN KillAndForget(m, ps, GetProcessID(m.oDesktop, pid_ok), kill_ok,
                               closed \o ReleaseScopeZero(5) \o <<Ev("GetProcessID", 0)>>)
            ELSE Result([m EXCEPT !.oDesktop = 0, !.pyaedt_initialized = FALSE], ps, None,
                        closed \o ReleaseScopes(5) \o <<DelDesktop>>)

\* release_desktop(close_projects, close_desktop)
release_desktop(backend, m, ps, close_projects, close_desktop, proj_list, ScopeID, pid_ok, kill_ok) ==
    IF backend = "pythonnet"
    THEN release_pythonnet(m, ps, close_projects, close_desktop, proj_list, ScopeID)
    ELSE IF backend = "pythonnet_v3"
    THEN release_pythonnet_v3(m, ps, close_projects, close_desktop, proj_list, pid_ok, kill_ok)
    ELSE Result(m, ps, None, <<>>)

\* force_close_desktop()
force_close_desktop(m, ps, proj_list, pid_ok, kill_ok) ==
    IF m.oDesktop = 0 THEN Result(m, ps, Raise("AttributeError"), <<>>)
    ELSE LET pid == GetProcessID(m.oDesktop, pid_ok)
         IN IF pid > 0
            THEN \* the scope loop reads i before it is assigned: no scope is released
                 KillAndForget([m EXCEPT !.pyaedt_initialized = FALSE], ps, pid, kill_ok,
                               <<Ev("GetProcessID", 0)>> \o CloseProjects(proj_list))
            ELSE Result(m, ps, None, <<Ev("GetProcessID", 0)>>)

\* what GetProjectList() can return
ProjectLists == {[i \in 1..n |-> i] : n \in 0..MaxProjects}

\* what GetProcessID() and os.kill() can do: both work, kill fails, no process id
SysOutcomes ==
    {[pid_ok |-> TRUE, kill_ok |-> TRUE], [pid_ok |-> TRUE, kill_ok |-> FALSE],
     [pid_ok |-> FALSE, kill_ok |-> FALSE]}

\* desktop.ScopeID, which only the pythonnet branch reads
ScopeIDs == IF com = "pythonnet" THEN 0..MaxScopeID ELSE {0}

\* what release_desktop can meet: only its pythonnet_v3 branch asks for the process id
ReleaseOutcomes == IF com = "pythonnet_v3" THEN SysOutcomes ELSE {[pid_ok |-> TRUE, kill_ok |-> TRUE]}

Apply(r) ==
    /\ main' = r.main
    /\ procs' = r.procs
    /\ ret' = r.ret
    /\ calls' = r.calls

ReleaseDesktop(close_projects, close_desktop, proj_list, ScopeID, sys) ==
    /\ op' = [name |-> "release_desktop", close_projects |-> close_projects,
              close_desktop |-> close_desktop]
    /\ Apply(release_desktop(com, main, procs, close_projects, close_desktop, proj_list,
                             ScopeID, sys.pid_ok, sys.kill_ok))
    /\ UNCHANGED <<desktop, fixedVars>>

ForceCloseDesktop(proj_list, sys) ==
    /\ op' = [name |-> "force_close_desktop"]
    /\ Apply(force_close_desktop(main, procs, proj_list, sys.pid_ok, sys.kill_ok))
    /\ UNCHANGED <<desktop, fixedVars>>

\* Desktop.__exit__: release_desktop(close_projects=close_on_exit, close_on_exit=close_on_exit)
Exit(self, proj_list, ScopeID, sys) ==
    /\ op' = [name |-> "__exit__", self |-> self]
    /\ IF self.release
       THEN LET r == release_desktop(com, main, procs, main.close_on_exit, main.close_on_exit,
                                     proj_list, ScopeID, sys.pid_ok, sys.kill_ok)
            IN Apply([r EXCEPT !.calls = <<Ev("release_desktop", 0)>> \o r.calls,
                               !.ret = IF r.ret.t = "raise" THEN r.ret ELSE None])
       ELSE /\ ret' = None
            /\ calls' = <<>>
            /\ UNCHANGED <<main, procs>>
    /\ UNCHANGED <<desktop, fixedVars>>

\* the user starts AEDT outside of the script
UserStartsAEDT(key) ==
    /\ \E a \in CreateObjectNew(procs, key) : procs' = a.procs
    /\ op' = [name |-> "user_starts_aedt"]
    /\ ret' = None
    /\ calls' = <<>>
    /\ UNCHANGED <<main, desktop, fixedVars>>

DeskInit ==
    /\ com \in Backends
    /\ installed \in InstallSets
    /\ procs = <<>>
    /\ main = NoMain
    /\ desktop = None
    /\ op = [name |-> "import"]
    /\ ret = None
    /\ calls = <<>>
    /\ layout = <<>>
    /\ cmp = <<>>

DeskNext ==
    \/ \E sv \in SpecifiedVersions, NG, AlwaysNew, roe \in BOOLEAN :
         DesktopInit(sv, NG, AlwaysNew, roe)
    \/ \E cp, cd \in BOOLEAN, pl \in ProjectLists, sid \in ScopeIDs, sys \in ReleaseOutcomes :
         ReleaseDesktop(cp, cd, pl, sid, sys)
    \/ \E pl \in ProjectLists, sys \in SysOutcomes :
         ForceCloseDesktop(pl, sys)
    \/ \E d \in {desktop} \ {None}, pl \in ProjectLists, sid \in ScopeIDs, sys \in ReleaseOutcomes :
         Exit(d, pl, sid, sys)
    \/ \E i \in installed : UserStartsAEDT(v_key(i))

Spec == DeskInit /\ [][DeskNext]_vars

(***************************************************************************)
(* Claims about Components (checked under SpecComponents)                  *)
(***************************************************************************)
Called(f) == f \in Range(calls)

\* C1 (as stated): once refresh_components has run (it has, in __init__), every access
\* to Components.components is served from the cache and does not call
\* get_component_list again.
C1_NoQueryAfterFirstAccess ==
    op.name = "components" => ~Called("get_component_list")

\* C1 (amended): an access that finds the cached dictionary non-empty returns that
\* dictionary, leaves it unchanged and does not call get_component_list; an access that
\* finds it empty (empty layout, or every entry deleted) runs refresh_components again
\* and returns what it read.
C1_CachedWhileNonEmpty ==
    [][op'.name = "components" =>
          IF DOMAIN cmp # {}
          THEN cmp' = cmp /\ ret' = cmp /\ calls' = <<>>
          ELSE calls' = <<"get_component_list">> /\ ret' = cmp'
               /\ DOMAIN cmp' = DOMAIN layout]_vars

C1_Witness ==
    op.name = "components" /\ DOMAIN cmp # {} /\ calls = <<>>

\* C2: delete_component(name) on an existing component removes it from the layout and
\* from the cached dictionary and returns True; on a missing one it returns False and
\* changes neither the layout nor the cache.
C2_DeleteComponentUpdatesCache ==
    [][op'.name = "delete_component" =>
          IF op'.arg \in DOMAIN layout
          THEN op'.arg \notin DOMAIN layout' /\ op'.arg \notin DOMAIN cmp' /\ ret' = TRUE
          ELSE ret' = FALSE /\ layout' = layout /\ cmp' = cmp]_vars

C3_IsTarget(val) ==
    val.type \in {"Resistor", "Capacitor", "Inductor"} /\ val.numpins < 2

\* the dictionary delete_single_pin_rlc iterates: self.components
C3_Iterated == IF DOMAIN cmp = {} THEN refresh_components(layout) ELSE cmp

C3_Found ==
    {n \in DOMAIN C3_Iterated : C3_IsTarget(C3_Iterated[n]) /\ n \in DOMAIN layout}

\* C3: delete_single_pin_rlc removes from the layout and from the cache exactly the
\* resistors, capacitors and inductors with fewer than two pins that it finds in the
\* layout, returns exactly their reference designators (each once), and leaves every
\* other component as it was in the layout and in the cache.
C3_DeleteSinglePinRlc ==
    [][op'.name = "delete_single_pin_rlc" =>
          /\ layout' = Restrict(layout, DOMAIN layout \ C3_Found)
          /\ cmp' = Restrict(C3_Iterated, DOMAIN C3_Iterated \ C3_Found)
          /\ Range(ret') = C3_Found
          /\ Len(ret') = Cardinality(C3_Found)
          /\ \A n \in DOMAIN layout' : ~C3_IsTarget(layout'[n])]_vars

C3_Witness ==
    /\ op.name = "delete_single_pin_rlc"
    /\ Len(ret) >= 2
    /\ DOMAIN layout # {}
    /\ DOMAIN cmp = DOMAIN layout

(***************************************************************************)
(* Claims about Desktop (checked under Spec)                               *)
(***************************************************************************)
\* the version key AEDT documents for each installation id
KeyOfId == (192 :> <<2018, 2>>) @@ (195 :> <<2019, 3>>) @@ (212 :> <<2021, 2>>)
InstalledKeys == {KeyOfId[i] : i \in installed}

CalledIn(cs, f) == \E i \in 1..Len(cs) : cs[i].f = f
Launching == op'.name = "Desktop" /\ main.oDesktop = 0
NewProcs == DOMAIN procs' \ DOMAIN procs

\* what the constructor does when it rejects the version: nothing is launched or
\* attached, oDesktop stays absent and pyaedt_initialized is left as it was
C4_Rejected ==
    /\ ret' = Raise("AssertionError")
    /\ calls' = <<>>
    /\ procs' = procs
    /\ main'.oDesktop = 0
    /\ main'.pyaedt_initialized = main.pyaedt_initialized
    /\ desktop' = desktop

\* C4 (as stated): a Desktop constructed without an oDesktop in __main__ and with any
\* specified_version that is not an installed version key fails with the "not known"
\* assertion: no AEDT is launched or attached, oDesktop stays absent and
\* pyaedt_initialized is not set.
C4_AnyUnknownVersionRejected ==
    [][(/\ Launching
        /\ ~op'.specified_version.none
        /\ op'.specified_version.s \notin InstalledKeys)
       => C4_Rejected]_vars

\* C4 (amended): a Desktop constructed without an oDesktop in __main__ and with a
\* non-empty specified_version that is not an installed version key fails with the
\* "not known" assertion: no AEDT is launched or attached, oDesktop stays absent and
\* pyaedt_initialized is not set.  (An empty string is handled like None.)
C4_UnknownVersionRejected ==
    [][(/\ Launching
        /\ Truthy(op'.specified_version)
        /\ op'.specified_version.s \notin InstalledKeys)
       => C4_Rejected]_vars

C4_Witness ==
    /\ op.name = "Desktop"
    /\ ret = Raise("AssertionError")
    /\ installed # {}
    /\ DOMAIN procs # {}
    /\ main.pyaedt_initialized

C6_NewInstanceOnEveryBackend ==
    [][(Launching /\ calls' # <<>>)
       => /\ (op'.NG \/ op'.AlwaysNew)
             => /\ CalledIn(calls', "CreateObjectNew")
                /\ ret'.t = "Desktop" => main'.oDesktop \in NewProcs
          /\ CalledIn(calls', "CreateObject")
             => /\ ~op'.NG /\ ~op'.AlwaysNew
                /\ com = "pythonnet_v3" => DOMAIN procs # {}]_vars

\* C6 (amended): under pythonnet and pythonnet_v3 a launch with AlwaysNew or NG creates
\* one new AEDT instance with CreateObjectNew, even when another one runs; oDesktop
\* refers to the new instance under pythonnet, and under pythonnet_v3 when the version
\* is 2021.1 or later; CreateObject is used only when both are False (and, under
\* pythonnet_v3, a process of the user runs).  Under pywin32 the two options are
\* ignored: the only call is Dispatch(version).
C6_NewInstanceWithPythonnet ==
    [][(Launching /\ calls' # <<>>)
       => /\ (com # "pywin32" /\ (op'.NG \/ op'.AlwaysNew))
             => /\ calls'[1].f = "CreateObjectNew"
                /\ Cardinality(NewProcs) = 1
                /\ (com = "pythonnet" \/ (ret'.t = "Desktop" /\ KeyGE(ret'.AEDTVersion, <<2021, 1>>)))
                   => main'.oDesktop \in NewProcs
          /\ CalledIn(calls', "CreateObject")
             => /\ com # "pywin32"
                /\ ~op'.NG /\ ~op'.AlwaysNew
                /\ com = "pythonnet_v3" => DOMAIN procs # {}
          /\ com = "pywin32" => calls' = <<Ev("Dispatch", 0)>>]_vars

C6_Witness ==
    /\ op.name = "Desktop"
    /\ op.AlwaysNew
    /\ ret.t = "Desktop"
    /\ calls[1].f = "CreateObjectNew"
    /\ DOMAIN procs = {1, 2}
    /\ procs[1].ver = procs[2].ver
    /\ main.oDesktop = 2

\* C7: __exit__ calls release_desktop exactly when the Desktop's release flag is true;
\* the flag is the release_on_exit argument when the Desktop launched or attached AEDT
\* itself and False when it was constructed with an oDesktop already in __main__, and
\* then __exit__ leaves __main__ and the AEDT processes alone.
C7_ReleaseOnExit ==
    [][/\ op'.name = "__exit__"
          => /\ CalledIn(calls', "release_desktop") <=> op'.self.release
             /\ ~op'.self.release => (main' = main /\ procs' = procs)
       /\ (op'.name = "Desktop" /\ ret'.t = "Desktop")
          => /\ ret'.release = (IF main.oDesktop # 0 THEN FALSE ELSE op'.release_on_exit)
             /\ desktop'.release = ret'.release]_vars

C7_Witness ==
    /\ op.name = "__exit__"
    /\ ~op.self.release
    /\ main.oDesktop # 0
    /\ calls = <<>>

IsEv(cs, i, f) == cs[i].f = f

\* C8: release_desktop with close_projects=True closes every project of the desktop's
\* project list, before any COM object scope is released; with close_projects=False it
\* closes none.
C8_ProjectsClosedFirst ==
    [][(op'.name = "release_desktop" /\ main.oDesktop # 0)
       => IF op'.close_projects
          THEN /\ \E i \in 1..Len(calls') :
                    /\ IsEv(calls', i, "GetProjectList")
                    /\ \A p \in 1..calls'[i].a : Ev("CloseProject", p) \in Range(calls')
               /\ \A i, j \in 1..Len(calls') :
                    (IsEv(calls', i, "CloseProject") /\ IsEv(calls', j, "ReleaseCOMObjectScope"))
                    => i < j
          ELSE ~CalledIn(calls', "CloseProject")]_vars

\* C9: release_desktop with close_desktop=True ends the AEDT process of the session
\* under every backend; with close_desktop=False no AEDT process is killed.
C9_CloseDesktopKills ==
    [][(op'.name = "release_desktop" /\ main.oDesktop # 0)
       => IF op'.close_desktop
          THEN main.oDesktop \notin DOMAIN procs'
          ELSE procs' = procs]_vars

\* C10: every call of force_close_desktop (with a desktop in __main__) returns a
\* boolean: True when the AEDT process was killed and oDesktop removed, False when the
\* shutdown failed, and then oDesktop is still there.
C10_ForceCloseReturnsBool ==
    [][(op'.name = "force_close_desktop" /\ main.oDesktop # 0)
       => /\ ret'.t = "bool"
          /\ ret'.v => (main.oDesktop \notin DOMAIN procs' /\ main'.oDesktop = 0)
          /\ ~ret'.v => (main'.oDesktop = main.oDesktop /\ procs' = procs)]_vars

IsRelease(e) == e.f = "ReleaseCOMObjectScope"

\* C11: with a desktop in __main__, release_desktop under pythonnet releases the COM
\* object scopes 0 .. ScopeID of the desktop, each exactly once and in increasing order,
\* and then removes oDesktop from __main__; under pythonnet_v3 with close_desktop=False
\* it releases the scopes 0 .. 5, each exactly once, and then removes oDesktop.
C11_ScopesReleasedInOrder ==
    [][(/\ op'.name = "release_desktop"
        /\ main.oDesktop # 0
        /\ com = "pythonnet" \/ (com = "pythonnet_v3" /\ ~op'.close_desktop))
       => LET last == IF com = "pythonnet" THEN calls'[1].a ELSE 5
              released == SelectSeq(calls', IsRelease)
          IN /\ com = "pythonnet" => calls'[1].f = "ScopeID"
             /\ Len(released) = last + 1
             /\ \A k \in 1..Len(released) : released[k].a = k - 1
             /\ calls'[Len(calls')] = DelDesktop
             /\ ~IsRelease(calls'[Len(calls')])
             /\ main'.oDesktop = 0]_vars

C11_Witness ==
    /\ op.name = "release_desktop"
    /\ com = "pythonnet"
    /\ calls # <<>>
    /\ calls[1] = Ev("ScopeID", MaxScopeID)
    /\ Len(SelectSeq(calls, IsRelease)) = MaxScopeID + 1
    /\ CalledIn(calls, "CloseProject")
    /\ main.oDesktop = 0

====
